---- MODULE Spec2Model ----
(***************************************************************************)
(* A model of the persistent-buff crate (src/src/lib.rs): a RAM region     *)
(* that survives a soft reset, guarded by the process-wide flag            *)
(* PERSISTENT_BUFF_TAKEN and tagged by a 4-byte marker at its head.        *)
(*                                                                         *)
(* Three specifications share the state:                                   *)
(*   Spec      one execution context calling the public API in any order,  *)
(*             with soft resets in between;                                *)
(*   SpecBoot  the crate's documented example program, boot after boot;    *)
(*   SpecConc  several execution contexts racing on checked acquisition,   *)
(*             one atomic memory operation per step.                       *)
(*                                                                         *)
(* The target is little-endian (the crate is written for Cortex-M): the    *)
(* marker's least significant byte is at the region's first address.       *)
(* Handles that alias (steal while another handle is live) are modelled    *)
(* as what they are on the device, pointers to the same bytes.             *)
(***************************************************************************)
EXTENDS Integers, Sequences, FiniteSets, Bags, TLC

(* ----------------------------- bounds ---------------------------------- *)

\* Longest region modelled, in bytes (the region length is end - start).
MaxLen == 5
\* Most handles the caller keeps alive at once (steal can alias a live one).
MaxHandles == 2
\* Most checked acquisitions that return within one process run.
MaxCalls == 2
\* Most boots of the example program.
MaxBoots == 257
\* Execution contexts racing on checked acquisition.
NumCtx == 2

(* ------------------------- program constants --------------------------- *)

\* core::mem::size_of::<u32>()
size_of_u32 == 4

\* A u32 is written as its four base-256 digits, most significant first,
\* so 0xFAB42069 is <<0xFA, 0xB4, 0x20, 0x69>>.
MAGIC_NUMBER == <<250, 180, 32, 105>>

\* The u32 zero that unmark() writes.
ZERO_U32 == <<0, 0, 0, 0>>

\* u8
Byte == 0..255

(* --------------------------- environment ------------------------------- *)

\* Addresses the linker script may give _persistent_buff_start: one divisible
\* by 4 and one that is not.
StartAddrs == {16, 17}

\* Region lengths end - start, from the empty region up to MaxLen.
RegionLens == 0..MaxLen

\* What the first bytes of the region may hold at power-up / after earlier
\* firmware: the pattern as this target stores it, the pattern in the
\* opposite byte order, the pattern with one byte off, all ones, all zeros.
ColdMarkers ==
    { <<105, 32, 180, 250>>, <<250, 180, 32, 105>>, <<105, 32, 180, 251>>,
      <<255, 255, 255, 255>>, <<0, 0, 0, 0>> }

\* Values a byte after the marker may hold at power-up.
ColdBytes == {0, 255}

\* The value the caller writes through a slice (no cold byte, no fill value,
\* no byte of the pattern).
WriteVals == {7}

\* Initializer closures FnOnce(&mut [u8]) the caller passes: do nothing, or
\* fill the slice with one value.
Closures ==
    { [kind |-> "noop", v |-> 0], [kind |-> "fill", v |-> 0],
      [kind |-> "fill", v |-> 255] }

VARIABLES
    PERSISTENT_BUFF_TAKEN,  \* the static AtomicBool
    persistent_buff_start,  \* address of the linker symbol _persistent_buff_start
    persistent_buff_end,    \* address of the linker symbol _persistent_buff_end
    mem,                    \* the region's bytes, by address
    handles,                \* what the caller holds: managed handles and raw slices
    halted,                 \* a panic has stopped this process run
    results,                \* what the checked acquisitions of this run returned
    stolen,                 \* an unchecked acquisition happened in this run
    last,                   \* the last call: name, result, initializer runs, marker before
    pc,                     \* SpecBoot: position in the example program
    boots,                  \* SpecBoot: number of the current boot
    ctx,                    \* SpecConc: each context's position and locals
    job,                    \* SpecReset: the call in progress and the stores it has yet to make
    torn                    \* SpecReset: the call whose initializer has rewritten only part of the payload

vars ==
    <<PERSISTENT_BUFF_TAKEN, persistent_buff_start, persistent_buff_end, mem,
      handles, halted, results, stolen, last, pc, boots, ctx, job, torn>>

(* ------------------------------ memory --------------------------------- *)

\* ptr::read_unaligned::<u32> on a little-endian target: four byte loads,
\* the lowest address holding the least significant digit.
read_unaligned(m, p) == <<m[p + 3], m[p + 2], m[p + 1], m[p]>>

\* An aligned store where the unaligned one should be: the low address bits
\* are dropped, so the four bytes land at the word boundary at or below p.
write_aligned(m, p, v) ==
    LET q == p - (p % 4)
    IN  [a \in DOMAIN m |-> IF a \in q..(q + 3) THEN v[4 - (a - q)] ELSE m[a]]

\* ptr::write_unaligned::<u32> on a little-endian target: four byte stores.
write_unaligned(m, p, v) ==
    [a \in DOMAIN m |-> IF a \in p..(p + 3) THEN v[4 - (a - p)] ELSE m[a]]

\* A slice &mut [u8]: its first address and its length.
Slice(p, n) == [ptr |-> p, len |-> n]

\* Calling an initializer closure on a slice.
call(f, m, s) ==
    IF f.kind = "fill"
    THEN [a \in DOMAIN m |-> IF a \in s.ptr..(s.ptr + s.len - 1) THEN f.v ELSE m[a]]
    ELSE m

(* ------------------------- the ownership flag -------------------------- *)

\* swap with its result thrown away: the caller is always told the flag was clear.
swap_blind(cur, val) == [prev |-> FALSE, next |-> val]

\* The test without the set: a load where the swap should be.
swap_load(cur, val) == [prev |-> cur, next |-> cur]

\* AtomicBool::swap(val): one atomic read-modify-write; prev is what it
\* returns, next what the flag holds afterwards.
swap(cur, val) == [prev |-> cur, next |-> val]

\* A store that never reaches the flag.
store_lost(cur, val) == cur

\* AtomicBool::store(val).
store(cur, val) == val

(* ------------------------------ handles -------------------------------- *)

\* The slice steal() builds from the two linker symbols.
steal_region ==
    LET start == persistent_buff_start
        end == persistent_buff_end
        len == end - start
    IN  Slice(start, len)

\* A bare &'static mut [u8] held by the caller (it has no magic pointer).
RawHandle(s) == [kind |-> "slice", magic |-> 0, buff |-> s, hist |-> "none"]

\* &mut b[size_of::<u32>()..] panics unless the slice has that many bytes.
CanSplit(b) == size_of_u32 <= b.len

\* The payload taken from the start of the slice, over the marker bytes.
Managed_overlap(b) ==
    [kind |-> "managed", magic |-> b.ptr, buff |-> Slice(b.ptr, b.len), hist |-> "none"]

\* PersistentBuff { magic: b.as_mut_ptr().cast(), buff: &mut b[4..] }.
\* hist is a history field: the last of validate / reset / invalidate that
\* returned on this handle.
Managed(b) ==
    [kind |-> "managed", magic |-> b.ptr,
     buff |-> Slice(b.ptr + size_of_u32, b.len - size_of_u32), hist |-> "none"]

\* mark writing the wrong constant.
mark_zero(m, h) == write_unaligned(m, h.magic, ZERO_U32)

mark(m, h) == write_unaligned(m, h.magic, MAGIC_NUMBER)

\* unmark that writes nothing.
unmark_noop(m, h) == m

unmark(m, h) == write_unaligned(m, h.magic, ZERO_U32)

valid(m, h) == read_unaligned(m, h.magic) = MAGIC_NUMBER

\* What the caller holds is a bag of handles: two handles stolen over the
\* same region are equal as values and still two handles.
Give(hs, h) == hs (+) SetToBag({h})

Remove(hs, h) == hs (-) SetToBag({h})

Replace(hs, h, g) == Give(Remove(hs, h), g)

HasRoom == BagCardinality(handles) < MaxHandles

\* No initializer ran.
NoClosure == [kind |-> "none", v |-> 0]

\* The record kept of the last call: its name, what it returned, how often it
\* invoked the caller's initializer and which one, and what valid() and the
\* handle's hist were when it was called.
Call(op, ret, n, f, wv, wh) ==
    [op |-> op, ret |-> ret, fcalls |-> n, f |-> f, was_valid |-> wv, was_hist |-> wh]

IsManaged(h) == BagIn(h, handles) /\ h.kind = "managed"

(* ------------------- acquisition, one call per step -------------------- *)

region == <<persistent_buff_start, persistent_buff_end>>

take_raw ==
    /\ Len(results) < MaxCalls
    /\ LET s == swap(PERSISTENT_BUFF_TAKEN, TRUE)
       IN  IF s.prev
           THEN /\ PERSISTENT_BUFF_TAKEN' = s.next
                /\ results' = Append(results, "None")
                /\ last' = Call("take_raw", "None", 0, NoClosure, FALSE, "none")
                /\ UNCHANGED handles
           ELSE /\ HasRoom
                /\ PERSISTENT_BUFF_TAKEN' = store(s.next, TRUE)
                /\ handles' = Give(handles, RawHandle(steal_region))
                /\ results' = Append(results, "Some")
                /\ last' = Call("take_raw", "Some", 0, NoClosure, FALSE, "none")
    /\ UNCHANGED <<region, mem, halted, stolen>>

take_managed ==
    /\ Len(results) < MaxCalls
    /\ LET s == swap(PERSISTENT_BUFF_TAKEN, TRUE)
           b == steal_region
       IN  IF s.prev
           THEN /\ PERSISTENT_BUFF_TAKEN' = s.next
                /\ results' = Append(results, "None")
                /\ last' = Call("take_managed", "None", 0, NoClosure, FALSE, "none")
                /\ UNCHANGED <<handles, halted>>
           ELSE /\ HasRoom
                /\ PERSISTENT_BUFF_TAKEN' = store(s.next, TRUE)
                /\ IF CanSplit(b)
                   THEN /\ handles' = Give(handles, Managed(b))
                        /\ results' = Append(results, "Some")
                        /\ last' = Call("take_managed", "Some", 0, NoClosure, FALSE, "none")
                        /\ UNCHANGED halted
                   ELSE /\ halted' = TRUE
                        /\ last' = Call("take_managed", "Panic", 0, NoClosure, FALSE, "none")
                        /\ UNCHANGED <<handles, results>>
    /\ UNCHANGED <<region, mem, stolen>>

steal ==
    /\ HasRoom
    /\ PERSISTENT_BUFF_TAKEN' = store(PERSISTENT_BUFF_TAKEN, TRUE)
    /\ handles' = Give(handles, RawHandle(steal_region))
    /\ stolen' = TRUE
    /\ last' = Call("steal", "Some", 0, NoClosure, FALSE, "none")
    /\ UNCHANGED <<region, mem, halted, results>>

steal_managed ==
    /\ HasRoom
    /\ PERSISTENT_BUFF_TAKEN' = store(PERSISTENT_BUFF_TAKEN, TRUE)
    /\ stolen' = TRUE
    /\ LET b == steal_region
       IN  IF CanSplit(b)
           THEN /\ handles' = Give(handles, Managed(b))
                /\ last' = Call("steal_managed", "Some", 0, NoClosure, FALSE, "none")
                /\ UNCHANGED halted
           ELSE /\ halted' = TRUE
                /\ last' = Call("steal_managed", "Panic", 0, NoClosure, FALSE, "none")
                /\ UNCHANGED handles
    /\ UNCHANGED <<region, mem, results>>

(* ---------------- the managed handle, one call per step ---------------- *)

Bool(b) == IF b THEN "True" ELSE "False"

\* The caller asks handle h whether it is valid.
call_valid(h) ==
    /\ IsManaged(h)
    /\ last' = Call("valid", Bool(valid(mem, h)), 0, NoClosure, valid(mem, h), "none")
    /\ UNCHANGED <<PERSISTENT_BUFF_TAKEN, region, mem, handles, halted, results, stolen>>

\* take that gives the flag back when the handle is consumed.
take_releasing(h) ==
    /\ IsManaged(h)
    /\ PERSISTENT_BUFF_TAKEN' = FALSE
    /\ IF valid(mem, h)
       THEN /\ handles' = Replace(handles, h, RawHandle(h.buff))
            /\ last' = Call("take", "Some", 0, NoClosure, TRUE, "none")
       ELSE /\ handles' = Remove(handles, h)
            /\ last' = Call("take", "None", 0, NoClosure, FALSE, "none")
    /\ UNCHANGED <<region, mem, halted, results, stolen>>

\* What the body of reset does to memory from contents m, and how often it
\* calls f: f(self.buff); self.mark().
reset_body(m, h, f) ==
    [mem |-> mark(call(f, m, h.buff), h), fcalls |-> 1]

\* What the body of validate does to memory from contents m, and how often
\* it calls f: if !self.valid() { f(self.buff) }; self.mark().
validate_body(m, h, f) ==
    LET v == valid(m, h)
    IN  [mem |-> mark(IF ~v THEN call(f, m, h.buff) ELSE m, h),
         fcalls |-> IF ~v THEN 1 ELSE 0]

\* take(self): the handle is consumed; the caller keeps the payload if valid.
take(h) ==
    /\ IsManaged(h)
    /\ IF valid(mem, h)
       THEN /\ handles' = Replace(handles, h, RawHandle(h.buff))
            /\ last' = Call("take", "Some", 0, NoClosure, TRUE, "none")
       ELSE /\ handles' = Remove(handles, h)
            /\ last' = Call("take", "None", 0, NoClosure, FALSE, "none")
    /\ UNCHANGED <<PERSISTENT_BUFF_TAKEN, region, mem, halted, results, stolen>>

take_reset(h, f) ==
    /\ IsManaged(h)
    /\ mem' = mark(call(f, mem, h.buff), h)
    /\ handles' = Replace(handles, h, RawHandle(h.buff))
    /\ last' = Call("take_reset", "Some", 1, f, valid(mem, h), "none")
    /\ UNCHANGED <<PERSISTENT_BUFF_TAKEN, region, halted, results, stolen>>

\* take_validate that runs the initializer whatever the marker says.
take_validate_always(h, f) ==
    /\ IsManaged(h)
    /\ mem' = mark(call(f, mem, h.buff), h)
    /\ handles' = Replace(handles, h, RawHandle(h.buff))
    /\ last' = Call("take_validate", "Some", 1, f, valid(mem, h), "none")
    /\ UNCHANGED <<PERSISTENT_BUFF_TAKEN, region, halted, results, stolen>>

take_validate(h, f) ==
    /\ IsManaged(h)
    /\ LET v == valid(mem, h)
       IN  /\ mem' = mark(IF ~v THEN call(f, mem, h.buff) ELSE mem, h)
           /\ handles' = Replace(handles, h, RawHandle(h.buff))
           /\ last' = Call("take_validate", "Some", IF ~v THEN 1 ELSE 0, IF ~v THEN f ELSE NoClosure, v, "none")
    /\ UNCHANGED <<PERSISTENT_BUFF_TAKEN, region, halted, results, stolen>>

\* get without the validity check.
get_unchecked(h) ==
    /\ IsManaged(h)
    /\ last' = Call("get", "Some", 0, NoClosure, valid(mem, h), "none")
    /\ UNCHANGED <<PERSISTENT_BUFF_TAKEN, region, mem, handles, halted, results, stolen>>

get(h) ==
    /\ IsManaged(h)
    /\ IF valid(mem, h)
       THEN last' = Call("get", "Some", 0, NoClosure, TRUE, "none")
       ELSE last' = Call("get", "None", 0, NoClosure, FALSE, "none")
    /\ UNCHANGED <<PERSISTENT_BUFF_TAKEN, region, mem, handles, halted, results, stolen>>

\* reset that skips the initializer on a valid buffer, as validate does.
reset_lazy(h, f) ==
    /\ IsManaged(h)
    /\ LET v == valid(mem, h)
       IN  /\ mem' = mark(IF ~v THEN call(f, mem, h.buff) ELSE mem, h)
           /\ handles' = Replace(handles, h, [h EXCEPT !.hist = "reset"])
           /\ last' = Call("reset", "Some", IF ~v THEN 1 ELSE 0, IF ~v THEN f ELSE NoClosure, v, "none")
    /\ UNCHANGED <<PERSISTENT_BUFF_TAKEN, region, halted, results, stolen>>

reset(h, f) ==
    /\ IsManaged(h)
    /\ mem' = reset_body(mem, h, f).mem
    /\ handles' = Replace(handles, h, [h EXCEPT !.hist = "reset"])
    /\ last' = Call("reset", "Some", reset_body(mem, h, f).fcalls, f, valid(mem, h), "none")
    /\ UNCHANGED <<PERSISTENT_BUFF_TAKEN, region, halted, results, stolen>>

\* validate without the validity check: the initializer always runs.
validate_always(h, f) ==
    /\ IsManaged(h)
    /\ mem' = mark(call(f, mem, h.buff), h)
    /\ handles' = Replace(handles, h, [h EXCEPT !.hist = "validate"])
    /\ last' = Call("validate", "Some", 1, f, valid(mem, h), h.hist)
    /\ UNCHANGED <<PERSISTENT_BUFF_TAKEN, region, halted, results, stolen>>

validate(h, f) ==
    /\ IsManaged(h)
    /\ LET v == valid(mem, h)
           r == validate_body(mem, h, f)
       IN  /\ mem' = r.mem
           /\ handles' = Replace(handles, h, [h EXCEPT !.hist = "validate"])
           /\ last' = Call("validate", "Some", r.fcalls, IF ~v THEN f ELSE NoClosure, v, h.hist)
    /\ UNCHANGED <<PERSISTENT_BUFF_TAKEN, region, halted, results, stolen>>

invalidate(h) ==
    /\ IsManaged(h)
    /\ mem' = unmark(mem, h)
    /\ handles' = Replace(handles, h, [h EXCEPT !.hist = "invalidate"])
    /\ last' = Call("invalidate", "Unit", 0, NoClosure, valid(mem, h), "none")
    /\ UNCHANGED <<PERSISTENT_BUFF_TAKEN, region, halted, results, stolen>>

(* ------------------------ the caller, the device ----------------------- *)

\* The slice the caller can write through h: a bare slice as it is; the
\* payload view of a managed handle, which get / validate / reset hand out
\* only while the marker is valid and invalidate takes back.
View(h) ==
    IF h.kind = "slice" \/ valid(mem, h) THEN h.buff ELSE Slice(h.buff.ptr, 0)

\* The offsets the caller writes at: the first and the last byte of a slice.
WriteOffsets(s) == {0, s.len - 1} \cap 0..(s.len - 1)

\* buff[off] = v
write(h, off, v) ==
    /\ BagIn(h, handles)
    /\ off \in WriteOffsets(View(h))
    /\ mem' = [mem EXCEPT ![View(h).ptr + off] = v]
    /\ last' = Call("write", "Unit", 0, NoClosure, FALSE, "none")
    /\ UNCHANGED <<PERSISTENT_BUFF_TAKEN, region, handles, halted, results, stolen>>

\* The caller lets go of h. PersistentBuff has no Drop: nothing is written.
drop(h) ==
    /\ BagIn(h, handles)
    /\ handles' = Remove(handles, h)
    /\ last' = Call("drop", "Unit", 0, NoClosure, FALSE, "none")
    /\ UNCHANGED <<PERSISTENT_BUFF_TAKEN, region, mem, halted, results, stolen>>

\* Soft reset: the statics are initialised again, the caller's handles are
\* gone, the region's bytes are what they were.
reboot ==
    /\ PERSISTENT_BUFF_TAKEN' = FALSE
    /\ handles' = EmptyBag
    /\ halted' = FALSE
    /\ results' = <<>>
    /\ stolen' = FALSE
    /\ last' = Call("reboot", "Unit", 0, NoClosure, FALSE, "none")
    /\ UNCHANGED <<region, mem>>

(* ----------------------- Spec: one context, any calls ------------------ *)

\* The bytes a cold marker c and cold payload bytes give a region of n bytes.
ColdImage(start, n, c, fill) ==
    [a \in start..(start + n - 1) |->
        IF a - start < size_of_u32 THEN c[a - start + 1] ELSE fill[a - start - size_of_u32 + 1]]

\* The region as the linker script and the power-up left it.
InitRegion ==
    /\ persistent_buff_start \in StartAddrs
    /\ \E n \in RegionLens :
           /\ persistent_buff_end = persistent_buff_start + n
           /\ \E c \in ColdMarkers, fill \in [1..(MaxLen - size_of_u32) -> ColdBytes] :
                  mem = ColdImage(persistent_buff_start, n, c, fill)

\* Process start.
InitProcess ==
    /\ PERSISTENT_BUFF_TAKEN = FALSE
    /\ handles = EmptyBag
    /\ halted = FALSE
    /\ results = <<>>
    /\ stolen = FALSE
    /\ last = Call("reboot", "Unit", 0, NoClosure, FALSE, "none")

\* No call is in progress.
NoJob == [op |-> "none", h |-> RawHandle(Slice(0, 0)), f |-> NoClosure, runs_f |-> FALSE, work |-> <<>>]

NoContexts == [c \in 1..NumCtx |-> [pc |-> "idle", api |-> "none", prev |-> FALSE, ret |-> "none"]]

Init ==
    /\ InitRegion
    /\ InitProcess
    /\ pc = "api"
    /\ boots = 1
    /\ ctx = NoContexts
    /\ job = NoJob
    /\ torn = "none"

Held == BagToSet(handles)

Next ==
    \/ ~halted /\ take_raw /\ UNCHANGED <<pc, boots, ctx, job, torn>>
    \/ ~halted /\ take_managed /\ UNCHANGED <<pc, boots, ctx, job, torn>>
    \/ ~halted /\ steal /\ UNCHANGED <<pc, boots, ctx, job, torn>>
    \/ ~halted /\ steal_managed /\ UNCHANGED <<pc, boots, ctx, job, torn>>
    \/ \E h \in Held : ~halted /\ call_valid(h) /\ UNCHANGED <<pc, boots, ctx, job, torn>>
    \/ \E h \in Held : ~halted /\ take(h) /\ UNCHANGED <<pc, boots, ctx, job, torn>>
    \/ \E h \in Held, f \in Closures :
           ~halted /\ take_reset(h, f) /\ UNCHANGED <<pc, boots, ctx, job, torn>>
    \/ \E h \in Held, f \in Closures :
           ~halted /\ take_validate(h, f) /\ UNCHANGED <<pc, boots, ctx, job, torn>>
    \/ \E h \in Held : ~halted /\ get(h) /\ UNCHANGED <<pc, boots, ctx, job, torn>>
    \/ \E h \in Held, f \in Closures :
           ~halted /\ reset(h, f) /\ UNCHANGED <<pc, boots, ctx, job, torn>>
    \/ \E h \in Held, f \in Closures :
           ~halted /\ validate(h, f) /\ UNCHANGED <<pc, boots, ctx, job, torn>>
    \/ \E h \in Held : ~halted /\ invalidate(h) /\ UNCHANGED <<pc, boots, ctx, job, torn>>
    \/ \E h \in Held, off \in 0..MaxLen, v \in WriteVals :
           ~halted /\ write(h, off, v) /\ UNCHANGED <<pc, boots, ctx, job, torn>>
    \/ \E h \in Held : ~halted /\ drop(h) /\ UNCHANGED <<pc, boots, ctx, job, torn>>
    \/ reboot /\ UNCHANGED <<pc, boots, ctx, job, torn>>

Spec == Init /\ [][Next]_vars

(* -------------- SpecBoot: the example program, boot after boot --------- *)

\* |b| b.fill(0)
fill_zero == [kind |-> "fill", v |-> 0]

\* (buff[0] % 255) + 1
bump(x) == (x % 255) + 1

\* let mut pbuff = PersistentBuff::take_managed().unwrap();
main_take ==
    /\ pc = "take_managed"
    /\ ~halted
    /\ take_managed
    /\ pc' = IF last'.ret = "Some" THEN "validate" ELSE "panicked"
    /\ UNCHANGED <<boots, ctx, job, torn>>

\* let buff = pbuff.validate(|b| b.fill(0));
main_validate ==
    /\ pc = "validate"
    /\ \E h \in Held : validate(h, fill_zero)
    /\ pc' = "incr"
    /\ UNCHANGED <<boots, ctx, job, torn>>

\* buff[0] = (buff[0] % 255) + 1;  (indexing an empty payload panics)
main_incr ==
    /\ pc = "incr"
    /\ \E h \in Held :
           /\ h.kind = "managed"
           /\ IF h.buff.len > 0
              THEN /\ mem' = [mem EXCEPT ![h.buff.ptr] = bump(mem[h.buff.ptr])]
                   /\ last' = Call("write", "Unit", 0, NoClosure, FALSE, "none")
                   /\ pc' = "loop"
              ELSE /\ last' = Call("write", "Panic", 0, NoClosure, FALSE, "none")
                   /\ pc' = "panicked"
                   /\ UNCHANGED mem
    /\ UNCHANGED <<PERSISTENT_BUFF_TAKEN, region, handles, halted, results, stolen, boots, ctx, job, torn>>

\* The device is reset once main has reached its end (or a panic) and runs main again.
main_reboot ==
    /\ pc \in {"loop", "panicked"}
    /\ boots < MaxBoots
    /\ reboot
    /\ pc' = "take_managed"
    /\ boots' = boots + 1
    /\ UNCHANGED <<ctx, job, torn>>

\* First power-up: the marker is not the pattern.
InitBoot ==
    /\ InitRegion
    /\ InitProcess
    /\ ~(persistent_buff_end - persistent_buff_start >= size_of_u32
           /\ read_unaligned(mem, persistent_buff_start) = MAGIC_NUMBER)
    /\ pc = "take_managed"
    /\ boots = 1
    /\ ctx = NoContexts
    /\ job = NoJob
    /\ torn = "none"

NextBoot ==
    \/ main_take
    \/ main_validate
    \/ main_incr
    \/ main_reboot

SpecBoot == InitBoot /\ [][NextBoot]_vars

(* ------- SpecConc: contexts racing, one atomic operation per step ------ *)

Ctxs == 1..NumCtx

\* if PERSISTENT_BUFF_TAKEN.swap(true, Ordering::Relaxed) { None } else { .. }
conc_swap(c, api) ==
    /\ ctx[c].pc = "idle"
    /\ LET s == swap(PERSISTENT_BUFF_TAKEN, TRUE)
       IN  /\ PERSISTENT_BUFF_TAKEN' = s.next
           /\ IF s.prev
              THEN /\ ctx' = [ctx EXCEPT ![c] = [pc |-> "done", api |-> api, prev |-> TRUE, ret |-> "None"]]
                   /\ results' = Append(results, "None")
                   /\ last' = Call(api, "None", 0, NoClosure, FALSE, "none")
              ELSE /\ ctx' = [ctx EXCEPT ![c] = [pc |-> "store", api |-> api, prev |-> FALSE, ret |-> "none"]]
                   /\ UNCHANGED <<results, last>>
    /\ UNCHANGED <<region, mem, handles, halted, stolen, pc, boots, job, torn>>

\* Inside steal(): PERSISTENT_BUFF_TAKEN.store(true, Ordering::SeqCst);
conc_store(c) ==
    /\ ctx[c].pc = "store"
    /\ PERSISTENT_BUFF_TAKEN' = store(PERSISTENT_BUFF_TAKEN, TRUE)
    /\ ctx' = [ctx EXCEPT ![c].pc = "slice"]
    /\ UNCHANGED <<region, mem, handles, halted, results, stolen, last, pc, boots, job, torn>>

\* The rest of steal() and the caller's wrapping of its slice: Some(slice)
\* from take_raw, the managed handle (or the slicing panic) from take_managed.
conc_slice(c) ==
    /\ ctx[c].pc = "slice"
    /\ LET b == steal_region
           api == ctx[c].api
       IN  IF api = "take_managed" /\ ~CanSplit(b)
           THEN /\ halted' = TRUE
                /\ ctx' = [ctx EXCEPT ![c].pc = "panicked"]
                /\ last' = Call(api, "Panic", 0, NoClosure, FALSE, "none")
                /\ UNCHANGED <<handles, results>>
           ELSE /\ handles' = Give(handles, IF api = "take_managed" THEN Managed(b) ELSE RawHandle(b))
                /\ ctx' = [ctx EXCEPT ![c].pc = "done", ![c].ret = "Some"]
                /\ results' = Append(results, "Some")
                /\ last' = Call(api, "Some", 0, NoClosure, FALSE, "none")
                /\ UNCHANGED halted
    /\ UNCHANGED <<PERSISTENT_BUFF_TAKEN, region, mem, stolen, pc, boots, job, torn>>

NextConc ==
    \/ \E c \in Ctxs, api \in {"take_raw", "take_managed"} : ~halted /\ conc_swap(c, api)
    \/ \E c \in Ctxs : ~halted /\ conc_store(c)
    \/ \E c \in Ctxs : ~halted /\ conc_slice(c)

SpecConc == Init /\ [][NextConc]_vars

(* ---- SpecReset: soft resets in the middle of a call, store by store ---- *)

\* Region lengths of SpecReset: the marker and a payload of up to
\* MaxLen + 1 - size_of_u32 bytes, so that a payload can be partly written.
ResetLens == size_of_u32..(MaxLen + 1)

InitReset ==
    /\ persistent_buff_start \in StartAddrs
    /\ \E n \in ResetLens :
           /\ persistent_buff_end = persistent_buff_start + n
           /\ \E c \in ColdMarkers, fill \in [1..(MaxLen + 1 - size_of_u32) -> ColdBytes] :
                  mem = ColdImage(persistent_buff_start, n, c, fill)
    /\ InitProcess
    /\ pc = "api"
    /\ boots = 1
    /\ ctx = NoContexts
    /\ job = NoJob
    /\ torn = "none"

\* The body of validate with the marker already written when f runs.
validate_phases_mark_first(v) == IF ~v THEN <<"mark", "f">> ELSE <<"mark">>

\* validate: if !self.valid() { f(self.buff) } then self.mark(), in program order.
validate_phases(v) == IF ~v THEN <<"f", "mark">> ELSE <<"mark">>

\* take_validate: if !self.valid() { f(self.buff) } then self.mark().
take_validate_phases(v) == IF ~v THEN <<"f", "mark">> ELSE <<"mark">>

\* reset: f(self.buff) then self.mark(), whatever valid() says.
reset_phases(v) == <<"f", "mark">>

\* take_reset: f(self.buff) then self.mark(), whatever valid() says.
take_reset_phases(v) == <<"f", "mark">>

\* invalidate: self.unmark().
invalidate_phases(v) == <<"unmark">>

ResetOps == {"validate", "take_validate", "reset", "take_reset", "invalidate"}

Phases(op, v) ==
    CASE op = "validate" -> validate_phases(v)
      [] op = "take_validate" -> take_validate_phases(v)
      [] op = "reset" -> reset_phases(v)
      [] op = "take_reset" -> take_reset_phases(v)
      [] op = "invalidate" -> invalidate_phases(v)

\* The byte stores one phase of a call makes: <<address, value>>. A filling
\* initializer stores to every payload byte, mark and unmark to the four
\* marker bytes; the order of the stores within a phase is the compiler's.
Stores(kind, m, h, f) ==
    LET after == CASE kind = "f" -> call(f, m, h.buff)
                   [] kind = "mark" -> mark(m, h)
                   [] kind = "unmark" -> unmark(m, h)
        where == CASE kind = "f" -> IF f.kind = "fill"
                                    THEN h.buff.ptr..(h.buff.ptr + h.buff.len - 1)
                                    ELSE {}
                   [] OTHER -> h.magic..(h.magic + size_of_u32 - 1)
    IN  {<<a, after[a]>> : a \in where}

Work(op, m, h, f) ==
    LET ph == Phases(op, valid(m, h))
    IN  [k \in 1..Len(ph) |-> [kind |-> ph[k], stores |-> Stores(ph[k], m, h, f)]]

\* PersistentBuff::take_managed() at the start of a boot.
r_take ==
    /\ job.op = "none"
    /\ ~halted
    /\ take_managed
    /\ UNCHANGED <<pc, boots, ctx, job, torn>>

\* The caller enters op on its managed handle: valid() is read, which decides
\* whether f will run.
r_call(h, op, f) ==
    /\ job.op = "none"
    /\ ~halted
    /\ IsManaged(h)
    /\ LET g == IF op = "invalidate" THEN NoClosure ELSE f
           w == Work(op, mem, h, g)
       IN  job' = [op |-> op, h |-> h, f |-> g,
                   runs_f |-> \E k \in 1..Len(w) : w[k].kind = "f",
                   work |-> w]
    /\ UNCHANGED <<PERSISTENT_BUFF_TAKEN, region, mem, handles, halted, results,
                   stolen, last, pc, boots, ctx, torn>>

\* One byte store of the current phase reaches memory. While the initializer
\* has stored some but not all of its bytes the payload is torn.
r_store ==
    /\ job.op # "none"
    /\ job.work # <<>>
    /\ \E st \in Head(job.work).stores :
           LET rest == Head(job.work).stores \ {st}
           IN  /\ mem' = [mem EXCEPT ![st[1]] = st[2]]
               /\ job' = [job EXCEPT !.work[1].stores = rest]
               /\ torn' = IF Head(job.work).kind = "f"
                          THEN IF rest # {} THEN job.op ELSE "none"
                          ELSE torn
    /\ UNCHANGED <<PERSISTENT_BUFF_TAKEN, region, handles, halted, results,
                   stolen, last, pc, boots, ctx>>

\* The current phase has made all its stores and returns: f (an initializer
\* that ran to its end leaves no torn payload), mark or unmark.
r_phase_end ==
    /\ job.op # "none"
    /\ job.work # <<>>
    /\ Head(job.work).stores = {}
    /\ job' = [job EXCEPT !.work = Tail(@)]
    /\ torn' = IF Head(job.work).kind = "f" THEN "none" ELSE torn
    /\ UNCHANGED <<PERSISTENT_BUFF_TAKEN, region, mem, handles, halted, results,
                   stolen, last, pc, boots, ctx>>

\* The call returns: the consuming variants hand back self.buff in place of
\* the handle.
r_return ==
    /\ job.op # "none"
    /\ job.work = <<>>
    /\ handles' = IF job.op \in {"take_validate", "take_reset"}
                  THEN Replace(handles, job.h, RawHandle(job.h.buff))
                  ELSE handles
    /\ last' = Call(job.op, IF job.op = "invalidate" THEN "Unit" ELSE "Some",
                    IF job.runs_f THEN 1 ELSE 0,
                    IF job.runs_f THEN job.f ELSE NoClosure, FALSE, "none")
    /\ job' = NoJob
    /\ UNCHANGED <<PERSISTENT_BUFF_TAKEN, region, mem, halted, results, stolen,
                   pc, boots, ctx, torn>>

\* A soft reset at any point, between two stores of a call included: the
\* call in progress is gone, the bytes stored so far stay.
r_reboot ==
    /\ reboot
    /\ job' = NoJob
    /\ UNCHANGED <<pc, boots, ctx, torn>>

NextReset ==
    \/ r_take
    \/ \E h \in Held, op \in ResetOps, f \in Closures : r_call(h, op, f)
    \/ r_store
    \/ r_phase_end
    \/ r_return
    \/ r_reboot

SpecReset == InitReset /\ [][NextReset]_vars

(* ============================ properties =============================== *)

\* The four bytes at the head of the region, in address order.
MarkerBytes == [k \in 1..size_of_u32 |-> mem[persistent_buff_start + k - 1]]

\* 0xFAB42069 as a little-endian target stores it, in address order.
StoredPattern == <<105, 32, 180, 250>>

HasMarker == persistent_buff_end - persistent_buff_start >= size_of_u32

MarkerValid == HasMarker /\ MarkerBytes = StoredPattern

\* The addresses after the marker.
PayloadAddrs == (persistent_buff_start + size_of_u32)..(persistent_buff_end - 1)

Checked == {"take_raw", "take_managed"}

\* C1: in a process run with no unchecked acquisition, the first checked
\* acquisition (take_raw or take_managed) to return gives Some and every
\* later one gives None, so the caller never holds more than one handle.
C1_FirstSomeThenNone ==
    ~stolen =>
        /\ \A k \in 1..Len(results) : results[k] = IF k = 1 THEN "Some" ELSE "None"
        /\ BagCardinality(handles) <= 1
        /\ (results # <<>>) = PERSISTENT_BUFF_TAKEN \/ halted

\* A second checked call of the other kind has just returned None while the
\* handle of the first is held.
C1_Witness ==
    /\ ~stolen
    /\ results = <<"Some", "None">>
    /\ last.op = "take_raw" /\ last.ret = "None"
    /\ \E h \in Held : h.kind = "managed"

ManagedHeld == {h \in Held : h.kind = "managed"}

\* C2: valid() is false exactly when the marker bytes are not the pattern;
\* validate(f) called in that state has invoked f once, on the payload, and
\* valid() is true afterwards.
C2_ValidateInitializes ==
    /\ last.op = "valid" => (last.ret = "False") = (MarkerBytes # StoredPattern)
    /\ (last.op = "validate" /\ ~last.was_valid) =>
           /\ last.fcalls = 1
           /\ last.f \in Closures
           /\ last.f.kind = "fill" => \A a \in PayloadAddrs : mem[a] = last.f.v
           /\ MarkerValid
           /\ \A h \in ManagedHeld : valid(mem, h)

\* validate has just run a filling initializer on a marker that was not the pattern.
C2_Witness ==
    /\ last.op = "validate" /\ ~last.was_valid
    /\ last.fcalls = 1 /\ last.f.kind = "fill"
    /\ PayloadAddrs # {}
    /\ MarkerValid

\* C3: on the one handle of a run, a validate that follows a validate (no
\* reset or invalidate in between) invokes no initializer and leaves every
\* byte of the region, payload and marker, as it was.
C3_ValidateIdempotent ==
    [][(~stolen /\ last'.op = "validate" /\ last'.was_hist = "validate") =>
           /\ last'.fcalls = 0
           /\ last'.was_valid
           /\ mem' = mem]_vars

\* A second validate has returned over a payload the caller wrote after the first.
C3_Witness ==
    /\ ~stolen
    /\ last.op = "validate" /\ last.was_hist = "validate" /\ last.fcalls = 0
    /\ \E a \in PayloadAddrs : mem[a] \in WriteVals

\* C4: after invalidate() the marker is not the pattern, whatever it was
\* before, and valid() is false; the validate(f) that follows on that handle
\* invokes f exactly once and leaves the handle valid.
C4_InvalidateThenValidate ==
    /\ last.op = "invalidate" =>
           /\ ~MarkerValid
           /\ \A h \in ManagedHeld : ~valid(mem, h)
    /\ (~stolen /\ last.op = "validate" /\ last.was_hist = "invalidate") =>
           /\ ~last.was_valid
           /\ last.fcalls = 1
           /\ MarkerValid
           /\ \A h \in ManagedHeld : valid(mem, h)

\* The validate after an invalidate has returned.
C4_Witness ==
    /\ ~stolen
    /\ last.op = "validate" /\ last.was_hist = "invalidate"
    /\ last.fcalls = 1
    /\ MarkerValid

\* The caller holds a slice over the whole region (from take_raw or steal),
\* through which the marker bytes themselves can be written.
WholeRegionHeld == \E h \in Held : h.kind = "slice" /\ h.buff.ptr = persistent_buff_start

MarkingOps == {"validate", "reset", "take_validate", "take_reset"}

\* C6: as long as the caller works through managed handles and payload
\* slices, the marker goes from valid to invalid only in an invalidate step
\* and from invalid to valid only in validate, reset, take_validate or
\* take_reset; every other step (valid, get, take, payload writes, drop,
\* acquisitions, reboot) leaves its validity as it was.
C6_MarkerTransitions ==
    [][(HasMarker /\ ~WholeRegionHeld) =>
           /\ (MarkerValid /\ ~MarkerValid') => last'.op = "invalidate"
           /\ (~MarkerValid /\ MarkerValid') => last'.op \in MarkingOps]_vars

\* invalidate has just turned a valid marker invalid, after a payload write.
C6_Witness ==
    /\ ~WholeRegionHeld
    /\ last.op = "invalidate" /\ last.was_valid
    /\ ~MarkerValid
    /\ \E a \in PayloadAddrs : mem[a] \in WriteVals

Unchecked == {"steal", "steal_managed"}

\* C7: steal and steal_managed go through whatever the flag was, hand out
\* one more handle over the region even while others are held, and leave the
\* flag set; a checked acquisition after a steal in the same run returns None.
C7_StealIgnoresFlag ==
    [][/\ last'.op \in Unchecked =>
              /\ PERSISTENT_BUFF_TAKEN'
              /\ stolen'
              /\ last'.ret = "Some" =>
                     /\ BagCardinality(handles') = BagCardinality(handles) + 1
                     /\ \E h \in BagToSet(handles') :
                            h \in {RawHandle(steal_region), Managed(steal_region)}
       /\ (stolen /\ last'.op \in Checked) => last'.ret = "None"
       /\ stolen => PERSISTENT_BUFF_TAKEN]_vars

\* A steal went through while a checked handle was held, and the checked
\* acquisition after it returned None.
C7_Witness ==
    /\ stolen
    /\ BagCardinality(handles) = 2
    /\ \E h \in Held : h.kind = "managed"
    /\ results = <<"Some", "None">>
    /\ last.op = "take_raw" /\ last.ret = "None"

\* C8: get() and take() return the payload exactly when the marker is the
\* pattern, and write no byte of the region; take() turns the handle into
\* the payload slice or into nothing.
C8_GetReadOnly ==
    [][last'.op \in {"get", "take"} =>
           /\ (last'.ret = "Some") = MarkerValid
           /\ (last'.ret = "None") = ~MarkerValid
           /\ mem' = mem
           /\ last'.op = "get" => handles' = handles
           /\ last'.op = "take" =>
                  \E h \in ManagedHeld :
                      handles' = IF MarkerValid
                                 THEN Replace(handles, h, RawHandle(Slice(persistent_buff_start + size_of_u32,
                                                                          persistent_buff_end - persistent_buff_start - size_of_u32)))
                                 ELSE Remove(handles, h)]_vars

\* get() has just refused an invalid buffer.
C8_Witness ==
    /\ last.op = "get" /\ last.ret = "None"
    /\ ~MarkerValid
    /\ ManagedHeld # {}

\* C9: a managed handle's marker pointer is the region's first address and
\* its payload is the region's bytes from the fifth on: length region - 4,
\* disjoint from the four marker bytes, and together with them the whole region.
C9_PayloadLength ==
    \A h \in ManagedHeld :
        LET marker == h.magic..(h.magic + size_of_u32 - 1)
            payload == h.buff.ptr..(h.buff.ptr + h.buff.len - 1)
        IN  /\ h.buff.len = (persistent_buff_end - persistent_buff_start) - size_of_u32
            /\ h.buff.len >= 0
            /\ marker \cap payload = {}
            /\ marker \cup payload = persistent_buff_start..(persistent_buff_end - 1)

\* A managed handle over a region of exactly four bytes: the payload is empty.
C9_Witness ==
    /\ persistent_buff_end - persistent_buff_start = size_of_u32
    /\ \E h \in ManagedHeld : h.buff.len = 0
    /\ last.op \in {"take_managed", "steal_managed"}

RegionLen == persistent_buff_end - persistent_buff_start

\* C5 as claimed: with a payload of at least one byte and a first marker that
\* is not the pattern, every boot of the example program acquires the handle;
\* validate finds the marker invalid and runs the initializer in the first
\* boot only; and when the k-th boot reaches its end payload[0] = k.
C5_CountsBoots ==
    RegionLen > size_of_u32 =>
        /\ ~halted /\ pc # "panicked"
        /\ pc = "validate" => last.op = "take_managed" /\ last.ret = "Some"
        /\ pc = "incr" =>
               /\ last.op = "validate"
               /\ boots = 1 => ~last.was_valid /\ last.fcalls = 1
               /\ boots > 1 => last.was_valid /\ last.fcalls = 0
        /\ pc = "loop" => mem[persistent_buff_start + size_of_u32] = boots

\* C5 amended: as C5_CountsBoots, but the count is kept in one byte by
\* buff[0] = (buff[0] % 255) + 1, so when the k-th boot reaches its end
\* payload[0] = ((k - 1) mod 255) + 1: k up to the 255th boot, then 1 again.
C5_CountsBootsMod255 ==
    RegionLen > size_of_u32 =>
        /\ ~halted /\ pc # "panicked"
        /\ pc = "validate" => last.op = "take_managed" /\ last.ret = "Some"
        /\ pc = "incr" =>
               /\ last.op = "validate"
               /\ boots = 1 => ~last.was_valid /\ last.fcalls = 1
               /\ boots > 1 => last.was_valid /\ last.fcalls = 0
        /\ pc = "loop" => mem[persistent_buff_start + size_of_u32] = ((boots - 1) % 255) + 1
        /\ (pc = "loop" /\ boots <= 255) => mem[persistent_buff_start + size_of_u32] = boots

\* The third boot has reached its end with payload[0] = 3.
C5_Witness ==
    /\ RegionLen > size_of_u32
    /\ pc = "loop" /\ boots = 3
    /\ mem[persistent_buff_start + size_of_u32] = 3
    /\ MarkerValid

\* The contexts that were told the flag was clear.
Owners == {c \in Ctxs : ctx[c].pc \in {"store", "slice", "panicked"} \/ ctx[c].ret = "Some"}

\* C10: however the contexts' steps interleave, at most one of them is ever
\* told the flag was clear, and once all have returned exactly one holds
\* Some and every other one None.
C10_OneWinner ==
    /\ Cardinality(Owners) <= 1
    /\ BagCardinality(handles) <= 1
    /\ (\A c \in Ctxs : ctx[c].pc = "done") =>
           /\ Cardinality({c \in Ctxs : ctx[c].ret = "Some"}) = 1
           /\ \A c \in Ctxs : ctx[c].ret \in {"Some", "None"}

\* All contexts have returned, the winner from take_managed and a loser from
\* take_raw, the loser having swapped between the winner's swap and its return.
C10_Witness ==
    /\ \A c \in Ctxs : ctx[c].pc = "done"
    /\ \E c \in Ctxs : ctx[c].ret = "Some" /\ ctx[c].api = "take_managed"
    /\ \E c \in Ctxs : ctx[c].ret = "None" /\ ctx[c].api = "take_raw"
    /\ results[1] = "None"

\* C11: over any region with end >= start no call of the public interface
\* fails: none panics, and the only outcome that is not a success is a checked
\* acquisition returning None because the flag was already set.
C11_NeverPanics == ~halted /\ last.ret # "Panic"

\* C12: reset(f) and take_reset(f) have invoked f exactly once on the
\* payload, whether the marker was valid or not, and the marker is the
\* pattern afterwards; reset keeps the handle, take_reset hands the payload
\* slice back in its place.
C12_ResetAlwaysInitializes ==
    last.op \in {"reset", "take_reset"} =>
        /\ last.ret = "Some"
        /\ last.fcalls = 1
        /\ last.f \in Closures
        /\ last.f.kind = "fill" => \A a \in PayloadAddrs : mem[a] = last.f.v
        /\ MarkerValid
        /\ \A h \in ManagedHeld : valid(mem, h)
        /\ last.op = "reset" => \E h \in ManagedHeld : h.hist = "reset"
        /\ last.op = "take_reset" =>
               \E h \in Held : h = RawHandle(Slice(persistent_buff_start + size_of_u32,
                                                   RegionLen - size_of_u32))

\* reset has just refilled the payload of a buffer that was already valid.
C12_Witness ==
    /\ last.op = "reset" /\ last.was_valid
    /\ last.fcalls = 1 /\ last.f.kind = "fill"
    /\ PayloadAddrs # {}
    /\ \A a \in PayloadAddrs : mem[a] = last.f.v
    /\ MarkerValid

\* C13: whatever the region's first address, a call that marks (validate,
\* reset, take_validate, take_reset) leaves the pattern in the four bytes at
\* offsets 0..3 and valid() true, invalidate leaves zero there and valid()
\* false, and neither the mark nor the unmark touches a payload byte (when no
\* filling initializer ran, the payload is as it was).
C13_MarkerAtAnyAddress ==
    [][/\ last'.op \in MarkingOps =>
              /\ MarkerBytes' = StoredPattern
              /\ \A h \in BagToSet(handles') : h.kind = "managed" => valid(mem', h)
              /\ last'.f.kind # "fill" => \A a \in PayloadAddrs : mem'[a] = mem[a]
              /\ last'.f.kind = "fill" => \A a \in PayloadAddrs : mem'[a] = last'.f.v
       /\ last'.op = "invalidate" =>
              /\ MarkerBytes' = <<0, 0, 0, 0>>
              /\ \A h \in BagToSet(handles') : h.kind = "managed" => ~valid(mem', h)
              /\ \A a \in PayloadAddrs : mem'[a] = mem[a]]_vars

\* At a first address not divisible by 4: the marker was cleared by
\* invalidate and validate has just written it again.
C13_Witness ==
    /\ persistent_buff_start % size_of_u32 # 0
    /\ last.op = "validate" /\ last.was_hist = "invalidate" /\ ~last.was_valid
    /\ MarkerValid
    /\ PayloadAddrs # {}

\* C14: within a process run the flag never goes back to false: every
\* acquisition leaves it set, no other call clears it, so once it is set a
\* checked acquisition returns None whatever became of the handles; only a
\* restart clears it.
C14_FlagMonotone ==
    [][/\ (PERSISTENT_BUFF_TAKEN /\ last'.op # "reboot") => PERSISTENT_BUFF_TAKEN'
       /\ last'.op \in (Checked \cup Unchecked) => PERSISTENT_BUFF_TAKEN'
       /\ (PERSISTENT_BUFF_TAKEN /\ last'.op \in Checked) => last'.ret = "None"
       /\ last'.op = "reboot" => ~PERSISTENT_BUFF_TAKEN']_vars

\* The handle of the first acquisition is gone (consumed by take on an
\* invalid buffer, or dropped) and a checked acquisition has still returned None.
C14_Witness ==
    /\ handles = EmptyBag
    /\ ~stolen
    /\ results = <<"Some", "None">>
    /\ last.op = "take_managed" /\ last.ret = "None"
    /\ PERSISTENT_BUFF_TAKEN

\* C15: a step of take_validate(f) leaves the memory (marker and payload)
\* that validate(f) would leave from the same contents and calls f as often,
\* and a step of take_reset(f) does the same with respect to reset(f); the
\* consuming call replaces the managed handle by the bare payload slice, the
\* borrowing call keeps the managed handle.
C15_ConsumingEqualsBorrowing ==
    [][/\ last'.op = "take_validate" =>
              \E h \in ManagedHeld, f \in Closures :
                  /\ last'.fcalls = 1 => f = last'.f
                  /\ mem' = validate_body(mem, h, f).mem
                  /\ last'.fcalls = validate_body(mem, h, f).fcalls
                  /\ handles' = Replace(handles, h, RawHandle(h.buff))
       /\ last'.op = "take_reset" =>
              \E h \in ManagedHeld :
                  /\ last'.f \in Closures
                  /\ mem' = reset_body(mem, h, last'.f).mem
                  /\ last'.fcalls = reset_body(mem, h, last'.f).fcalls
                  /\ handles' = Replace(handles, h, RawHandle(h.buff))
       /\ last'.op \in {"validate", "reset"} =>
              \E h \in ManagedHeld :
                  handles' = Replace(handles, h, [h EXCEPT !.hist = last'.op])]_vars

\* take_validate has consumed the handle of a valid buffer without calling
\* the initializer, as validate would have: the payload slice is what is held.
C15_Witness ==
    /\ last.op = "take_validate" /\ last.was_valid /\ last.fcalls = 0
    /\ MarkerValid
    /\ ManagedHeld = {}
    /\ \E h \in Held : h.kind = "slice"
    /\ PayloadAddrs # {}

Validates == {"validate", "take_validate"}

\* C16: the marker never holds the pattern over a payload that the
\* initializer of validate or take_validate has only partly written, at any
\* point of any boot, so a soft reset in the middle of the call leaves
\* valid() false; and a call of validate or take_validate that skips the
\* initializer is never one made over such a payload (the next boot re-runs
\* the initializer).
C16_ValidateResetSafe ==
    /\ torn \in Validates => ~MarkerValid
    /\ (job.op \in Validates /\ ~job.runs_f) => torn \notin Validates

\* A soft reset left the payload partly written by validate, and in the next
\* boot take_validate has read valid() as false and is about to run its
\* initializer over the whole payload.
C16_Witness ==
    /\ torn = "validate"
    /\ ~MarkerValid
    /\ job.op = "take_validate" /\ job.runs_f
    /\ job.work # <<>>
    /\ Head(job.work).kind = "f"
    /\ Cardinality(Head(job.work).stores) = Cardinality(PayloadAddrs)
    /\ \E a, b \in PayloadAddrs : mem[a] # mem[b]

\* C17: after a soft reset in the middle of reset(f) or take_reset(f), the
\* next boot does not find the marker valid over a payload that f had only
\* partly rewritten.
C17_ResetResetSafe ==
    (torn \in {"reset", "take_reset"} /\ job.op = "none") => ~MarkerValid

====
